---- MODULE Spec2Model ----
(***************************************************************************)
(* Model of hypothesis_test_proportions.PruebasProporcionesComparacion:    *)
(* the constructor and the analytical methods, with the numpy / scipy      *)
(* routines they call modelled by what those routines compute.             *)
(*                                                                         *)
(* Floating-point values are modelled as exact rationals <<n, d>> in       *)
(* lowest terms (d > 0), with the two IEEE special values the program can  *)
(* produce: NaN == <<0, 0>> and Inf == <<1, 0>>.  The chi-square survival  *)
(* function, which is transcendental, is modelled in fixed point to four   *)
(* decimals (the precision the program prints).                            *)
(***************************************************************************)
EXTENDS Integers, Sequences, FiniteSets, TLC

VARIABLES
    construido,          \* "no" before __init__, "si" once it returned, "error" if it raised
    error_init,          \* exception class raised by __init__ ("" if none)
    entrada,             \* the tabla_contingencia argument as passed to __init__
    tabla,               \* self.tabla: the array's elements
    shape,               \* self.tabla.shape
    alpha,               \* self.alpha
    nombres_grupos,      \* self.nombres_grupos
    nombres_categorias,  \* self.nombres_categorias
    llamada,             \* the last method call: [metodo, alternativa]
    resultado,           \* what that call gave back: [tipo, error, ...fields]
    hilos,               \* threads calling methods of the one object: per thread
                         \* its position, its call, what it has read, its record
    sys_stdout,          \* app.py: the stream bound to the process-wide sys.stdout
    flujos,              \* app.py: what has been printed to each stream
    bloques              \* app.py: the analysis block of each session: its
                         \* position, its old_stdout, how its try body ended

vars == <<construido, error_init, entrada, tabla, shape, alpha,
          nombres_grupos, nombres_categorias, llamada, resultado,
          hilos, sys_stdout, flujos, bloques>>

\* the threads of the class's callers
estado_hilos == <<hilos>>

\* the state of the web application's process
estado_app == <<sys_stdout, flujos, bloques>>

objeto == <<construido, error_init, entrada, tabla, shape, alpha,
            nombres_grupos, nombres_categorias>>

----------------------------------------------------------------------------
(* Bounds of the model *)

\* largest count in a cell of a table of at most four cells
MaxCell == 4

\* largest count in a cell of a six-cell table
MaxWide == 1

\* largest count in a cell of the 2x2 tables on which every method is called
MaxCuenta == 2

\* number of print calls that make up the report of a method
LineasInforme == 2

----------------------------------------------------------------------------
(* Floating point as exact rationals *)

NaN == <<0, 0>>

Inf == <<1, 0>>

Abs(x) == IF x < 0 THEN -x ELSE x

RECURSIVE GCD(_, _)
GCD(a, b) == IF b = 0 THEN a ELSE GCD(b, a % b)

\* the rational n/d (d # 0) in lowest terms with a positive denominator
Frac(n, d) ==
    LET s == IF d < 0 THEN -1 ELSE 1
        g == GCD(Abs(n), Abs(d))
    IN  <<(s * n) \div g, (s * d) \div g>>

OfInt(k) == <<k, 1>>

IsNaN(x) == x = NaN

IsFinite(x) == x[2] # 0

\* numpy true division of two integers: x/0 is nan or inf (a warning, no exception)
TrueDiv(a, b) ==
    IF b # 0 THEN Frac(a, b)
    ELSE IF a = 0 THEN NaN
    ELSE IF a > 0 THEN Inf ELSE <<-1, 0>>

RAdd(x, y) ==
    IF IsNaN(x) \/ IsNaN(y) THEN NaN
    ELSE IF ~IsFinite(x) /\ ~IsFinite(y) THEN (IF x = y THEN x ELSE NaN)
    ELSE IF ~IsFinite(x) THEN x
    ELSE IF ~IsFinite(y) THEN y
    ELSE LET g == GCD(x[2], y[2])
         IN  Frac(x[1] * (y[2] \div g) + y[1] * (x[2] \div g), (x[2] \div g) * y[2])

RNeg(x) == <<-x[1], x[2]>>

RSub(x, y) == RAdd(x, RNeg(y))

RMul(x, y) ==
    IF IsNaN(x) \/ IsNaN(y) THEN NaN
    ELSE LET g1 == GCD(Abs(x[1]), y[2])
             g2 == GCD(Abs(y[1]), x[2])
         IN  Frac((x[1] \div g1) * (y[1] \div g2), (x[2] \div g2) * (y[2] \div g1))

\* float division x / y for y finite and nonzero, or NaN
RDiv(x, y) ==
    IF IsNaN(x) \/ IsNaN(y) THEN NaN
    ELSE IF y[1] = 0 THEN (IF x[1] = 0 THEN NaN ELSE Inf)
    ELSE RMul(x, IF y[1] < 0 THEN <<-y[2], -y[1]>> ELSE <<y[2], y[1]>>)

\* IEEE comparisons: every comparison with NaN is false
RLt(x, y) == ~IsNaN(x) /\ ~IsNaN(y) /\
    IF IsFinite(x) /\ IsFinite(y) THEN x[1] * y[2] < y[1] * x[2]
    ELSE IF IsFinite(x) THEN y[1] > 0
    ELSE IF IsFinite(y) THEN x[1] < 0
    ELSE x[1] < y[1]

REq(x, y) == ~IsNaN(x) /\ ~IsNaN(y) /\ x = y

RLe(x, y) == RLt(x, y) \/ REq(x, y)

RAbs(x) == <<Abs(x[1]), x[2]>>

RMin(x, y) == IF IsNaN(x) \/ IsNaN(y) THEN NaN ELSE IF RLt(y, x) THEN y ELSE x

RSign(x) == IF IsNaN(x) THEN NaN ELSE OfInt(IF x[1] > 0 THEN 1 ELSE IF x[1] < 0 THEN -1 ELSE 0)

RECURSIVE SumSeq(_)
SumSeq(s) == IF s = <<>> THEN 0 ELSE Head(s) + SumSeq(Tail(s))

RECURSIVE RSumSeq(_)
RSumSeq(s) == IF s = <<>> THEN OfInt(0) ELSE RAdd(Head(s), RSumSeq(Tail(s)))

----------------------------------------------------------------------------
(* Inputs *)

\* table shapes the model feeds to the constructor
Shapes == {<<1, 2>>, <<2, 1>>, <<2, 2>>, <<2, 3>>, <<3, 2>>}

CellValues(r, c) == IF r * c <= 4 THEN -1 .. MaxCell ELSE 0 .. MaxWide

Rectangulares ==
    UNION {[1 .. s[1] -> [1 .. s[2] -> CellValues(s[1], s[2])]] : s \in Shapes}

\* nested lists whose rows differ in length
Irregulares ==
    {<<<<a, b>>, <<c>>>> : a, b, c \in 0 .. 1} \cup {<<<<a>>, <<b, c>>>> : a, b, c \in 0 .. 1}

Entradas == Rectangulares \cup Irregulares

\* the tables of examples.py (the vaccine trial) and of app.py (the default
\* entries of the 2x2 form)
Ejemplos == {<<<<3, 12>>, <<11, 4>>>>, <<<<10, 5>>, <<3, 12>>>>}

\* the rows of the 2x3 and of the 3x2 tables on which every method is called
FilasDeTres == {<<0, 0, 0>>, <<0, 1, 1>>, <<1, 0, 2>>}

FilasDeDos == {<<0, 0>>, <<0, 1>>, <<2, 1>>}

\* tables with a negative entry
Negativas == {<<<<-1, 2>>, <<3, 1>>>>, <<<<2, -1>>, <<1, 1>>>>}

\* the inputs on which every method is called
EntradasMetodos ==
    [1 .. 2 -> [1 .. 2 -> 0 .. MaxCuenta]] \cup [1 .. 2 -> FilasDeTres]
        \cup [1 .. 3 -> FilasDeDos] \cup Ejemplos \cup Negativas \cup Irregulares

\* the (grupo, categoria_exito) arguments of intervalo_agresti_coull: the
\* defaults, the second group, indices from the end, indices past the end
IndicesCoull == {<<0, 0>>, <<1, 0>>, <<-1, 1>>, <<2, 0>>, <<0, 2>>, <<-3, 0>>, <<1, -3>>}

\* the two rows of a column of a 2x5 table
ColumnasDeCinco == {<<4, 4>>, <<5, 5>>, <<2, 6>>, <<6, 4>>}

\* the 2x5 tables made of such columns: ten cells, so that two cells are
\* exactly 20 % of the table, with expected frequencies on both sides of 5
EntradasSupuestos ==
    {[i \in 1 .. 2 |-> [j \in 1 .. 5 |-> cols[j][i]]] : cols \in [1 .. 5 -> ColumnasDeCinco]}

IsRectangular(m) == \A i \in 1 .. Len(m) : Len(m[i]) = Len(m[1])

\* significance levels, as rationals: 0.05 (the default) and 0.10
Alphas == {<<1, 20>>, <<1, 10>>}

\* a label is <<prefix, number>>: f"Grupo {i+1}" is <<"Grupo", i+1>>
NombresDados(prefijo, n) == [i \in 1 .. n |-> <<prefijo, i>>]

Alternativas == {"two-sided", "less", "greater", "otra"}

SinLlamada == [metodo |-> "", alternativa |-> ""]

SinResultado == [tipo |-> "ninguno"]

\* two threads share the object
Hilos == {1, 2}

\* the calls the threads make: the two tests and the two interval estimators
LlamadasHilos ==
    {[metodo |-> m, alternativa |-> IF m = "prueba_fisher_exacta" THEN "two-sided" ELSE "",
      grupo |-> 0, categoria_exito |-> 0] :
        m \in {"prueba_fisher_exacta", "prueba_chi_cuadrado", "intervalo_agresti_coull",
               "intervalo_agresti_caffo_diferencia"}}

HiloLibre == [pc |-> "libre",
              llamada |-> [metodo |-> "", alternativa |-> "", grupo |-> 0,
                           categoria_exito |-> 0],
              tabla_leida |-> <<>>, shape_leida |-> <<>>, impresas |-> 0,
              resultado |-> SinResultado]

\* the tables the threads share
EntradasHilos == Ejemplos \cup {<<<<0, 1, 1>>, <<1, 0, 2>>>>}

\* two browser sessions run the script of app.py in one process
Sesiones == {1, 2}

\* the streams sys.stdout can be bound to: the one the process started with
\* and the io.StringIO() of each session's block
Original == <<"original", 0>>

Buffer(s) == <<"buffer", s>>

Flujos == {Original} \cup {Buffer(s) : s \in Sesiones}

BloqueInicial == [pc |-> "inicio", old_stdout |-> <<"", 0>>, impresos |-> 0, fin |-> ""]

----------------------------------------------------------------------------
(* __init__ *)

Init ==
    /\ construido = "no"
    /\ error_init = ""
    /\ entrada = <<>>
    /\ tabla = <<>>
    /\ shape = <<>>
    /\ alpha = <<0, 1>>
    /\ nombres_grupos = <<>>
    /\ nombres_categorias = <<>>
    /\ llamada = SinLlamada
    /\ resultado = SinResultado
    /\ hilos = [h \in Hilos |-> HiloLibre]
    /\ sys_stdout = Original
    /\ flujos = [f \in Flujos |-> <<>>]
    /\ bloques = [s \in Sesiones |-> BloqueInicial]

\* np.array(tabla_contingencia).shape for a list of lists of equal length
NpShape(m) == <<Len(m), Len(m[1])>>

\* __init__ raising: the exception leaves no object
InitRaises(m, exc) ==
    /\ construido' = "error"
    /\ error_init' = exc
    /\ entrada' = m
    /\ UNCHANGED <<tabla, shape, alpha, nombres_grupos, nombres_categorias>>

\* __init__ returning: the four attributes are set; a falsy names argument
\* (None or an empty list) is replaced by generated labels
InitReturns(m, sh, a, con_nombres) ==
    /\ construido' = "si"
    /\ error_init' = ""
    /\ entrada' = m
    /\ tabla' = m
    /\ shape' = sh
    /\ alpha' = a
    /\ nombres_grupos' =
          IF con_nombres THEN NombresDados("Fila", sh[1]) ELSE NombresDados("Grupo", sh[1])
    /\ nombres_categorias' =
          IF con_nombres THEN NombresDados("Columna", Len(m[1]))
          ELSE NombresDados("Categoria", sh[2])

\* PruebasProporcionesComparacion(tabla_contingencia, nombres_grupos,
\* nombres_categorias, alpha).  No check is made on the matrix.  A ragged
\* nested list makes np.array raise ValueError (numpy >= 1.24) or build a
\* one-dimensional object array (older numpy), whose shape[1] raises
\* IndexError when the category labels have to be generated.
ConstruirCon(entradas) ==
    /\ construido = "no"
    /\ \E m \in entradas, a \in Alphas, con_nombres \in BOOLEAN :
          IF IsRectangular(m)
          THEN InitReturns(m, NpShape(m), a, con_nombres)
          ELSE \/ InitRaises(m, "ValueError")
               \/ IF con_nombres
                  THEN InitReturns(m, <<Len(m)>>, a, con_nombres)
                  ELSE InitRaises(m, "IndexError")
    /\ UNCHANGED <<llamada, resultado, estado_hilos, estado_app>>

Construir == ConstruirCon(Entradas)

----------------------------------------------------------------------------
(* scipy.stats.hypergeom on exact integers *)

RECURSIVE Binom(_, _)
Binom(n, k) ==
    IF k < 0 \/ k > n THEN 0
    ELSE IF k = 0 THEN 1
    ELSE IF 2 * k > n THEN Binom(n, n - k)
    ELSE (Binom(n, k - 1) * (n - k + 1)) \div k

\* hypergeom.pmf(k, M, n, N) * Binom(M, N): population M, n marked, N drawn
PmfNum(k, M, n, N) == Binom(n, k) * Binom(M - n, N - k)

RECURSIVE CdfNum(_, _, _, _)
\* hypergeom.cdf(k, M, n, N) * Binom(M, N)
CdfNum(k, M, n, N) ==
    IF k < 0 THEN 0 ELSE PmfNum(k, M, n, N) + CdfNum(k - 1, M, n, N)

\* hypergeom.sf(k, M, n, N) * Binom(M, N)
SfNum(k, M, n, N) == Binom(M, N) - CdfNum(k, M, n, N)

----------------------------------------------------------------------------
(* scipy.stats.fisher_exact *)

RECURSIVE BinarySearchLoop(_, _, _, _, _, _, _)
\* the loop of _binary_search_for_binom_tst(a, d, lo, hi).  On the upper side
\* a(x) = -pmf(x) and d = -pexact*gamma; on the lower side a(x) = pmf(x) and
\* d = pexact*gamma, with gamma = 1 + 1e-14.  Two distinct probabilities of
\* the tables modelled here differ by far more than that factor, so
\* pmf(x) > pexact*gamma is PmfNum(x) > pexact and pmf(x) < pexact*gamma is
\* PmfNum(x) <= pexact; a(mid) = d does not occur.
BinarySearchLoop(upper, pexact, lo, hi, M, n, N) ==
    IF lo < hi
    THEN LET mid == lo + (hi - lo) \div 2
             big == PmfNum(mid, M, n, N) > pexact
             below == IF upper THEN big ELSE ~big     \* a(mid) < d
         IN  IF below
             THEN BinarySearchLoop(upper, pexact, mid + 1, hi, M, n, N)
             ELSE BinarySearchLoop(upper, pexact, lo, mid - 1, M, n, N)
    ELSE lo

\* a mutation of BinarySearch: the closing test on a(lo) is left out
BinarySearchSinAjuste(upper, pexact, lo, hi, M, n, N) ==
    BinarySearchLoop(upper, pexact, lo, hi, M, n, N)

\* _binary_search_for_binom_tst: the index i with a(i) <= d < a(i+1)
BinarySearch(upper, pexact, lo, hi, M, n, N) ==
    LET l == BinarySearchLoop(upper, pexact, lo, hi, M, n, N)
        big == PmfNum(l, M, n, N) > pexact
        le == IF upper THEN big ELSE ~big             \* a(l) <= d
    IN  IF le THEN l ELSE l - 1

\* a mutation of FisherTwoSidedNum: only the tail on the side of the observed
\* cell is added
FisherUnaCola(c) ==
    LET n1 == c[1][1] + c[1][2]
        n2 == c[2][1] + c[2][2]
        n == c[1][1] + c[2][1]
        M == n1 + n2
        mode == ((n + 1) * (n1 + 1)) \div (M + 2)
    IN  IF c[1][1] < mode THEN CdfNum(c[1][1], M, n1, n)
        ELSE SfNum(c[1][1] - 1, M, n1, n)

\* the numerator, over Binom(n1 + n2, n), of the two-sided p-value
FisherTwoSidedNum(c) ==
    LET n1 == c[1][1] + c[1][2]
        n2 == c[2][1] + c[2][2]
        n == c[1][1] + c[2][1]
        M == n1 + n2
        total == Binom(M, n)
        mode == ((n + 1) * (n1 + 1)) \div (M + 2)
        pexact == PmfNum(c[1][1], M, n1, n)
        pmode == PmfNum(mode, M, n1, n)
    IN  IF pexact = pmode THEN total
        ELSE IF c[1][1] < mode
        THEN LET plower == CdfNum(c[1][1], M, n1, n)
             IN  IF PmfNum(n, M, n1, n) > pexact THEN plower
                 ELSE plower + SfNum(BinarySearch(TRUE, pexact, mode, n, M, n1, n), M, n1, n)
        ELSE LET pupper == SfNum(c[1][1] - 1, M, n1, n)
             IN  IF PmfNum(0, M, n1, n) > pexact THEN pupper
                 ELSE pupper + CdfNum(BinarySearch(FALSE, pexact, 0, mode, M, n1, n), M, n1, n)

\* a mutation of OddsRatio: the ratio taken upside down
OddsRatioInvertida(c) ==
    IF c[1][1] > 0 /\ c[2][2] > 0
    THEN Frac(c[2][1] * c[1][2], c[1][1] * c[2][2])
    ELSE Inf

\* the sample odds ratio of fisher_exact, for a table with no zero margin
OddsRatio(c) ==
    IF c[2][1] > 0 /\ c[1][2] > 0
    THEN Frac(c[1][1] * c[2][2], c[2][1] * c[1][2])
    ELSE Inf

\* fisher_exact(table, alternative) on a 2x2 array: [error, oddsratio, pvalue]
FisherExact(c, alternative) ==
    LET n1 == c[1][1] + c[1][2]
        n2 == c[2][1] + c[2][2]
        n == c[1][1] + c[2][1]
        m == c[1][2] + c[2][2]
        M == n1 + n2
        oddsratio == OddsRatio(c)
        num == CASE alternative = "less" -> CdfNum(c[1][1], M, n1, n)
                 [] alternative = "greater" -> CdfNum(c[1][2], M, n1, m)
                 [] OTHER -> FisherTwoSidedNum(c)
        den == IF alternative = "greater" THEN Binom(M, m) ELSE Binom(M, n)
        pvalue == Frac(num, den)
    IN  IF \E i, j \in 1 .. 2 : c[i][j] < 0
        THEN [error |-> "ValueError", oddsratio |-> NaN, pvalue |-> NaN]
        ELSE IF n1 = 0 \/ n2 = 0 \/ n = 0 \/ m = 0
        THEN [error |-> "", oddsratio |-> NaN, pvalue |-> OfInt(1)]
        ELSE IF alternative \notin {"less", "greater", "two-sided"}
        THEN [error |-> "ValueError", oddsratio |-> NaN, pvalue |-> NaN]
        ELSE [error |-> "", oddsratio |-> oddsratio, pvalue |-> RMin(pvalue, OfInt(1))]

----------------------------------------------------------------------------
(* prueba_fisher_exacta *)

\* a mutation of EsDosPorDos: the number of columns is only bounded below
EsDosPorDosLaxo(sh) == Len(sh) = 2 /\ sh[1] = 2 /\ sh[2] >= 2

\* self.tabla.shape == (2, 2)
EsDosPorDos(sh) == sh = <<2, 2>>

\* a mutation of RechazoFisher: p_value = alpha rejects too
RechazoFisherNoEstricto(p_value, a) == RLe(p_value, a)

\* rechazo_h0 of the Fisher record
RechazoFisher(p_value, a) == RLt(p_value, a)

\* what prueba_fisher_exacta(alternativa) gives on an object whose array is t,
\* of shape sh, and whose alpha is a
RegistroFisher(t, sh, a, alternativa) ==
    IF ~EsDosPorDos(sh)
    THEN [tipo |-> "dict", aplicable |-> FALSE,
          mensaje |-> "La prueba exacta de Fisher solo es aplicable a tablas 2x2"]
    ELSE LET f == FisherExact(t, alternativa)
         IN  IF f.error # ""
             THEN [tipo |-> "raise", error |-> f.error]
             ELSE [tipo |-> "dict", aplicable |-> TRUE,
                   odds_ratio |-> f.oddsratio,
                   p_value |-> f.pvalue,
                   p1 |-> TrueDiv(t[1][1], SumSeq(t[1])),
                   p2 |-> TrueDiv(t[2][1], SumSeq(t[2])),
                   rechazo_h0 |-> RechazoFisher(f.pvalue, a)]

prueba_fisher_exacta ==
    /\ construido = "si"
    /\ \E alternativa \in Alternativas :
          /\ llamada' = [metodo |-> "prueba_fisher_exacta", alternativa |-> alternativa]
          /\ resultado' = RegistroFisher(tabla, shape, alpha, alternativa)
    /\ UNCHANGED <<objeto, estado_hilos, estado_app>>

----------------------------------------------------------------------------
(* scipy.stats.chi2.sf in fixed point *)

\* the largest s with s * s <= v, for lo * lo <= v < hi * hi
RECURSIVE ISqrtLoop(_, _, _)
ISqrtLoop(v, lo, hi) ==
    IF hi - lo <= 1 THEN lo
    ELSE LET mid == (lo + hi) \div 2
         IN  IF mid * mid <= v THEN ISqrtLoop(v, mid, hi) ELSE ISqrtLoop(v, lo, mid)

ISqrt(v) == ISqrtLoop(v, 0, 46340)

RECURSIVE Power10(_)
Power10(k) == IF k = 0 THEN 1 ELSE 10 * Power10(k - 1)

\* x >= 0 finite, in thousandths, rounded down
Thousandths(x) == (x[1] \div x[2]) * 1000 + ((x[1] % x[2]) * 1000) \div x[2]

\* exp(-k) in ten-thousandths for an integer k >= 0
ExpNegInt(k) ==
    IF k > 9 THEN 0
    ELSE <<10000, 3679, 1353, 498, 183, 67, 25, 9, 3, 1>>[k + 1]

RECURSIVE ExpNegSeries(_, _, _, _)
\* sum of the terms (-f/1000)^i / i! from i on, in millionths; term is the i-th
ExpNegSeries(f, i, term, sign) ==
    IF term = 0 THEN 0
    ELSE sign * term + ExpNegSeries(f, i + 1, (term * f) \div (1000 * (i + 1)), -sign)

\* exp(-y) in ten-thousandths, for y >= 0 given in thousandths
ExpNeg(y3) ==
    ((ExpNegSeries(y3 % 1000, 0, 1000000, 1) \div 100) * ExpNegInt(y3 \div 1000)) \div 10000

\* erfc(t) * exp(t*t) in ten-thousandths for t >= 0 in thousandths: the
\* rational approximation 7.1.26 of Abramowitz and Stegun
ErfcPoly(t3) ==
    LET u == 100000000 \div (10000 + (3276 * t3) \div 1000)
        h5 == 10614
        h4 == -14532 + (h5 * u) \div 10000
        h3 == 14214 + (h4 * u) \div 10000
        h2 == -2845 + (h3 * u) \div 10000
        h1 == 2548 + (h2 * u) \div 10000
    IN  (h1 * u) \div 10000

\* chi2.sf(x, df) = chdtrc(df, x): 1.0 at x <= 0 and nan at nan; for df = 2 it
\* is exp(-x/2), for df = 4 it is exp(-x/2) * (1 + x/2), for df = 1 it is
\* erfc(sqrt(x/2)).  Past x = 40 the value is
\* below the resolution of the model.
Chi2Sf(x, df) ==
    IF IsNaN(x) THEN NaN
    ELSE IF x[1] <= 0 THEN OfInt(1)
    ELSE IF x[1] \div x[2] >= 40 THEN OfInt(0)
    ELSE LET y3 == Thousandths(x) \div 2
         IN  CASE df = 2 -> Frac(ExpNeg(y3), 10000)
               [] df = 4 -> Frac((ExpNeg(y3) * (1000 + y3)) \div 1000, 10000)
               [] df = 1 -> Frac((ErfcPoly(ISqrt(y3 * 1000)) * ExpNeg(y3)) \div 10000, 10000)

----------------------------------------------------------------------------
(* scipy.stats.chi2_contingency *)

Filas(sh) == 1 .. sh[1]

Columnas(sh) == 1 .. sh[2]

RowTotal(obs, sh, i) == SumSeq(obs[i])

ColTotal(obs, sh, j) == SumSeq([i \in Filas(sh) |-> obs[i][j]])

GrandTotal(obs, sh) == SumSeq([i \in Filas(sh) |-> RowTotal(obs, sh, i)])

\* expected_freq(observed): the product of the margins over the total; the
\* division is a float division, so a total of 0 gives nan in every cell
ExpectedFreq(obs, sh) ==
    [i \in Filas(sh) |-> [j \in Columnas(sh) |->
        TrueDiv(RowTotal(obs, sh, i) * ColTotal(obs, sh, j), GrandTotal(obs, sh))]]

\* Yates' correction: each observed count moves towards its expected value
\* by min(0.5, |expected - observed|)
Yates(o, e) ==
    LET diff == RSub(e, o)
    IN  RAdd(o, RMul(RMin(<<1, 2>>, RAbs(diff)), RSign(diff)))

\* a mutation of Observed: the counts enter the statistic uncorrected
ObservedSinCorreccion(obs, sh, expected, dof) ==
    [i \in Filas(sh) |-> [j \in Columnas(sh) |-> OfInt(obs[i][j])]]

\* the observed counts that enter the statistic: corrected when dof = 1
\* (chi2_contingency is called with its default correction=True)
Observed(obs, sh, expected, dof) ==
    [i \in Filas(sh) |-> [j \in Columnas(sh) |->
        IF dof = 1 THEN Yates(OfInt(obs[i][j]), expected[i][j]) ELSE OfInt(obs[i][j])]]

\* power_divergence with lambda_ = 1: sum of (f_obs - f_exp)^2 / f_exp
PearsonStatistic(f_obs, f_exp, sh) ==
    RSumSeq([i \in Filas(sh) |-> RSumSeq([j \in Columnas(sh) |->
        LET d == RSub(f_obs[i][j], f_exp[i][j])
        IN  RDiv(RMul(d, d), f_exp[i][j])])])

\* a mutation of Dof: the number of dimensions is not added back
DofSinNdim(sh) == sh[1] * sh[2] - (sh[1] + sh[2]) - 1

\* dof = expected.size - sum(expected.shape) + expected.ndim - 1
Dof(sh) == sh[1] * sh[2] - (sh[1] + sh[2]) + Len(sh) - 1

\* chi2_contingency(observed): [error, chi2, p, dof, expected]
Chi2Contingency(obs, sh) ==
    LET expected == ExpectedFreq(obs, sh)
        dof == Dof(sh)
        chi2 == PearsonStatistic(Observed(obs, sh, expected, dof), expected, sh)
        fallo(e) == [error |-> e, chi2 |-> NaN, p |-> NaN, dof |-> 0, expected |-> <<>>]
    IN  IF Len(sh) # 2 THEN fallo("TypeError")     \* object array: list < int
        ELSE IF \E i \in Filas(sh), j \in Columnas(sh) : obs[i][j] < 0
        THEN fallo("ValueError")
        ELSE IF \E i \in Filas(sh), j \in Columnas(sh) : REq(expected[i][j], OfInt(0))
        THEN fallo("ValueError")
        ELSE IF dof = 0
        THEN [error |-> "", chi2 |-> OfInt(0), p |-> OfInt(1), dof |-> dof,
              expected |-> expected]
        ELSE [error |-> "", chi2 |-> chi2, p |-> Chi2Sf(chi2, dof), dof |-> dof,
              expected |-> expected]

----------------------------------------------------------------------------
(* prueba_chi_cuadrado *)

\* np.sum(expected < 5)
CeldasBajas(expected, sh) ==
    Cardinality({ij \in Filas(sh) \X Columnas(sh) :
                    RLt(expected[ij[1]][ij[2]], OfInt(5))})

\* (celdas_bajas / total_celdas) * 100
PorcentajeBajas(celdas_bajas, total_celdas) ==
    RMul(TrueDiv(celdas_bajas, total_celdas), OfInt(100))

\* rechazo_h0 of the chi-square record
RechazoChi(p_value, a) == RLt(p_value, a)

\* a mutation of SupuestosOk: exactly 20 % of low cells is not accepted
SupuestosOkEstricto(porcentaje_bajas) == RLt(porcentaje_bajas, OfInt(20))

\* supuestos_ok of the chi-square record: porcentaje_bajas <= 20
SupuestosOk(porcentaje_bajas) == RLe(porcentaje_bajas, OfInt(20))

\* what prueba_chi_cuadrado() gives on an object whose array is t, of shape
\* sh, and whose alpha is a
RegistroChi(t, sh, a) ==
    LET r == Chi2Contingency(t, sh)
    IN  IF r.error # ""
        THEN [tipo |-> "raise", error |-> r.error]
        ELSE LET celdas_bajas == CeldasBajas(r.expected, sh)
                 porcentaje_bajas == PorcentajeBajas(celdas_bajas, sh[1] * sh[2])
             IN  [tipo |-> "dict",
                  chi2 |-> r.chi2,
                  p_value |-> r.p,
                  df |-> r.dof,
                  expected |-> r.expected,
                  celdas_bajas |-> celdas_bajas,
                  rechazo_h0 |-> RechazoChi(r.p, a),
                  supuestos_ok |-> SupuestosOk(porcentaje_bajas)]

prueba_chi_cuadrado ==
    /\ construido = "si"
    /\ llamada' = [metodo |-> "prueba_chi_cuadrado", alternativa |-> ""]
    /\ resultado' = RegistroChi(tabla, shape, alpha)
    /\ UNCHANGED <<objeto, estado_hilos, estado_app>>

----------------------------------------------------------------------------
(* intervalo_agresti_caffo_diferencia *)

RECURSIVE Digits(_, _, _)
\* floor(r * 10^k / d) for 0 <= r < d, one decimal digit at a time
Digits(r, d, k) ==
    IF k = 0 THEN 0
    ELSE ((r * 10) \div d) * Power10(k - 1) + Digits((r * 10) % d, d, k - 1)

\* np.sqrt of a rational in [0, 1], to four decimals; nan stays nan
RSqrt(x) ==
    IF IsNaN(x) THEN NaN
    ELSE Frac(ISqrt((x[1] \div x[2]) * 100000000 + Digits(x[1] % x[2], x[2], 8)), 10000)

\* stats.norm.ppf(1 - alpha/2), to four decimals
ZCritico(a) ==
    CASE a = <<1, 20>> -> <<19600, 10000>>
      [] a = <<1, 10>> -> <<16449, 10000>>

\* a product of two non-negative floats, kept to four decimals
RMul4(x, y) ==
    IF IsNaN(x) \/ IsNaN(y) THEN NaN
    ELSE LET n == x[1] * y[1]
             d == x[2] * y[2]
         IN  Frac((n \div d) * 10000 + Digits(n % d, d, 4), 10000)

\* a mutation of LimitesCaffo: the bounds cut to [-1, 1]
LimitesCaffoRecortados(diff, z, se) ==
    LET lower == RSub(diff, RMul4(z, se))
        upper == RAdd(diff, RMul4(z, se))
    IN  <<IF RLt(lower, OfInt(-1)) THEN OfInt(-1) ELSE lower,
          IF RLt(OfInt(1), upper) THEN OfInt(1) ELSE upper>>

\* ic_lower = diff - z * se and ic_upper = diff + z * se, as they are
LimitesCaffo(diff, z, se) == <<RSub(diff, RMul4(z, se)), RAdd(diff, RMul4(z, se))>>

\* a mutation of IncluyeCero: only the lower bound is looked at
IncluyeCeroSoloInferior(ic_lower, ic_upper) == RLe(ic_lower, OfInt(0))

\* 'incluye_cero': ic_lower <= 0 <= ic_upper
IncluyeCero(ic_lower, ic_upper) == RLe(ic_lower, OfInt(0)) /\ RLe(OfInt(0), ic_upper)

\* the closing line the method prints about zero: the first branch of
\* if ic_lower > 0 / elif ic_upper < 0 / else that applies
ConclusionCaffo(ic_lower, ic_upper) ==
    IF RLt(OfInt(0), ic_lower) THEN "El intervalo NO incluye 0: p1 > p2"
    ELSE IF RLt(ic_upper, OfInt(0)) THEN "El intervalo NO incluye 0: p1 < p2"
    ELSE "El intervalo INCLUYE 0"

\* what intervalo_agresti_caffo_diferencia() gives on an object whose array
\* is t, of shape sh, and whose alpha is a
RegistroCaffo(t, sh, a) ==
    IF ~EsDosPorDos(sh)
    THEN [tipo |-> "None",
          mensaje |-> "El metodo Agresti-Caffo solo es aplicable a tablas 2x2"]
    ELSE LET x1 == t[1][1]
             n1 == SumSeq(t[1])
             x2 == t[2][1]
             n2 == SumSeq(t[2])
             z == ZCritico(a)
             p1_tilde == TrueDiv(x1 + 1, n1 + 2)
             p2_tilde == TrueDiv(x2 + 1, n2 + 2)
             diff == RSub(p1_tilde, p2_tilde)
             se == RSqrt(RAdd(
                      RDiv(RMul(p1_tilde, RSub(OfInt(1), p1_tilde)), OfInt(n1 + 2)),
                      RDiv(RMul(p2_tilde, RSub(OfInt(1), p2_tilde)), OfInt(n2 + 2))))
             ic == LimitesCaffo(diff, z, se)
             ic_lower == ic[1]
             ic_upper == ic[2]
             p1_obs == TrueDiv(x1, n1)
             p2_obs == TrueDiv(x2, n2)
         IN  [tipo |-> "dict",
              p1_obs |-> p1_obs,
              p2_obs |-> p2_obs,
              diff_obs |-> RSub(p1_obs, p2_obs),
              p1_ajustada |-> p1_tilde,
              p2_ajustada |-> p2_tilde,
              diff_ajustada |-> diff,
              ic_lower |-> ic_lower,
              ic_upper |-> ic_upper,
              incluye_cero |-> IncluyeCero(ic_lower, ic_upper),
              impreso |-> ConclusionCaffo(ic_lower, ic_upper)]

\* app.py, "Intervalos IC": the success box "El IC no incluye 0" is shown
\* when not resultado_diff['incluye_cero'], the info box otherwise
MuestraExclusion(resultado_diff) == ~resultado_diff.incluye_cero

intervalo_agresti_caffo_diferencia ==
    /\ construido = "si"
    /\ llamada' = [metodo |-> "intervalo_agresti_caffo_diferencia", alternativa |-> ""]
    /\ resultado' = RegistroCaffo(tabla, shape, alpha)
    /\ UNCHANGED <<objeto, estado_hilos, estado_app>>

----------------------------------------------------------------------------
(* intervalo_agresti_coull *)

\* a mutation of EnRango: an index below 0 is out of bounds
EnRangoSinNegativos(k, n) == 0 <= k /\ k < n

\* numpy accepts the index k on an axis of length n
EnRango(k, n) == -n <= k /\ k < n

\* the position (from 1) that the index k denotes on an axis of length n:
\* an index below 0 counts from the end
Posicion(k, n) == IF k < 0 THEN n + k + 1 ELSE k + 1

\* a float x >= 0 kept to four decimals
Redondear4(x) ==
    IF IsNaN(x) THEN NaN
    ELSE Frac((x[1] \div x[2]) * 10000 + Digits(x[1] % x[2], x[2], 4), 10000)

\* a mutation of Max0: the lower bound is left as computed
Max0SinRecorte(v) == v

\* max(0, v): the second argument is taken when it is greater than 0
Max0(v) == IF RLt(OfInt(0), v) THEN v ELSE OfInt(0)

\* min(1, v): the second argument is taken when it is less than 1
Min1(v) == IF RLt(v, OfInt(1)) THEN v ELSE OfInt(1)

\* what intervalo_agresti_coull(grupo, categoria_exito) gives on an object
\* whose array is t, of shape sh, and whose alpha is a.  Indexing a
\* one-dimensional array with two indices raises IndexError.  The quantity
\* under the root is kept to four decimals.
RegistroCoull(t, sh, a, grupo, categoria_exito) ==
    IF Len(sh) # 2 \/ ~EnRango(grupo, sh[1]) \/ ~EnRango(categoria_exito, sh[2])
    THEN [tipo |-> "raise", error |-> "IndexError"]
    ELSE LET x == t[Posicion(grupo, sh[1])][Posicion(categoria_exito, sh[2])]
             n == SumSeq(t[Posicion(grupo, sh[1])])
             z == ZCritico(a)
             z2 == RMul4(z, z)
             n_tilde == RAdd(OfInt(n), z2)
             p_tilde == RDiv(RAdd(OfInt(x), RDiv(z2, OfInt(2))), n_tilde)
             p4 == Redondear4(p_tilde)
             v == RDiv(Redondear4(RMul(p4, RSub(OfInt(1), p4))), n_tilde)
             se == IF RLt(v, OfInt(0)) THEN NaN ELSE RSqrt(v)
             ic_lower == RSub(p_tilde, RMul4(z, se))
             ic_upper == RAdd(p_tilde, RMul4(z, se))
         IN  [tipo |-> "dict",
              p_observada |-> TrueDiv(x, n),
              p_ajustada |-> p_tilde,
              ic_lower |-> Max0(ic_lower),
              ic_upper |-> Min1(ic_upper),
              n |-> n,
              x |-> x]

intervalo_agresti_coull ==
    /\ construido = "si"
    /\ \E ix \in IndicesCoull :
          /\ llamada' = [metodo |-> "intervalo_agresti_coull", alternativa |-> "",
                         grupo |-> ix[1], categoria_exito |-> ix[2]]
          /\ resultado' = RegistroCoull(tabla, shape, alpha, ix[1], ix[2])
    /\ UNCHANGED <<objeto, estado_hilos, estado_app>>

----------------------------------------------------------------------------
(* mostrar_tabla *)

\* the frame that is printed: a column 'Total' with the sum of each row, then
\* a row 'Total' with the sum of each column
ConTotales(t, sh, grupos, categorias) ==
    LET filas == [i \in Filas(sh) |-> Append(t[i], SumSeq(t[i]))]
    IN  [indice |-> Append(grupos, <<"Total", 0>>),
         columnas |-> Append(categorias, <<"Total", 0>>),
         valores |-> Append(filas,
             [j \in 1 .. sh[2] + 1 |-> SumSeq([i \in Filas(sh) |-> filas[i][j]])])]

\* what mostrar_tabla() can give.  pd.DataFrame takes a two-dimensional array
\* whose sides have the lengths of the two label lists.  A one-dimensional
\* object array is taken as one column: with another number of column labels
\* pandas raises ValueError; with one label the column holds lists, and
\* whether their sums are printed or raise TypeError depends on pandas.
ResultadosMostrar(t, sh, grupos, categorias) ==
    IF Len(sh) = 2
    THEN IF Len(grupos) = sh[1] /\ Len(categorias) = sh[2]
         THEN {[tipo |-> "None", impreso |-> ConTotales(t, sh, grupos, categorias)]}
         ELSE {[tipo |-> "raise", error |-> "ValueError"]}
    ELSE IF Len(categorias) # 1
         THEN {[tipo |-> "raise", error |-> "ValueError"]}
         ELSE {[tipo |-> "raise", error |-> "TypeError"],
               [tipo |-> "None", impreso |-> <<>>]}

\* a mutation of mostrar_tabla: the row 'Total' is written through the frame
\* into the array of the object
mostrar_tabla_en_sitio ==
    /\ construido = "si"
    /\ Len(shape) = 2
    /\ llamada' = [metodo |-> "mostrar_tabla", alternativa |-> ""]
    /\ resultado' \in ResultadosMostrar(tabla, shape, nombres_grupos, nombres_categorias)
    /\ tabla' = [tabla EXCEPT ![shape[1]] =
                    [j \in Columnas(shape) |-> ColTotal(tabla, shape, j)]]
    /\ UNCHANGED <<construido, error_init, entrada, shape, alpha, nombres_grupos,
                   nombres_categorias, estado_hilos, estado_app>>

\* mostrar_tabla(): the frame is the method's own; the totals are added to
\* the frame, the array of the object is only read
mostrar_tabla ==
    /\ construido = "si"
    /\ llamada' = [metodo |-> "mostrar_tabla", alternativa |-> ""]
    /\ resultado' \in ResultadosMostrar(tabla, shape, nombres_grupos, nombres_categorias)
    /\ UNCHANGED <<objeto, estado_hilos, estado_app>>

----------------------------------------------------------------------------
(* comparar_metodos *)

\* expected.min() of a 2x2 array: nan if a cell is nan
MinExpected(expected) ==
    RMin(RMin(expected[1][1], expected[1][2]), RMin(expected[2][1], expected[2][2]))

\* if total < 20 or min_expected < 5: ... else: ...
Recomendacion(total, min_expected) ==
    IF total < 20 \/ RLt(min_expected, OfInt(5))
    THEN "USAR: Prueba exacta de Fisher"
    ELSE "USAR: Chi-cuadrado o Fisher (ambos son validos)"

\* 'Rechazar H0' if p < self.alpha else 'No rechazar H0'
Decision(p, a) == IF RLt(p, a) THEN "Rechazar H0" ELSE "No rechazar H0"

\* what comparar_metodos() gives on an object whose array is t, of shape sh,
\* and whose alpha is a: it returns None, and what it prints is kept.  It
\* calls fisher_exact and chi2_contingency itself, and an exception of either
\* leaves the method before anything is recommended.
RegistroComparar(t, sh, a) ==
    IF ~EsDosPorDos(sh)
    THEN [tipo |-> "None",
          mensaje |-> "La comparacion detallada solo esta disponible para tablas 2x2"]
    ELSE LET f == FisherExact(t, "two-sided")
             r == Chi2Contingency(t, sh)
         IN  IF f.error # "" THEN [tipo |-> "raise", error |-> f.error]
             ELSE IF r.error # "" THEN [tipo |-> "raise", error |-> r.error]
             ELSE [tipo |-> "None",
                   mensaje |-> "",
                   decision_fisher |-> Decision(f.pvalue, a),
                   decision_chi |-> Decision(r.p, a),
                   recomendacion |-> Recomendacion(GrandTotal(t, sh), MinExpected(r.expected)),
                   intervalo |-> "USAR: Metodo Agresti-Caffo"]

comparar_metodos ==
    /\ construido = "si"
    /\ llamada' = [metodo |-> "comparar_metodos", alternativa |-> ""]
    /\ resultado' = RegistroComparar(tabla, shape, alpha)
    /\ UNCHANGED <<objeto, estado_hilos, estado_app>>

----------------------------------------------------------------------------
(* analisis_completo *)

\* the methods analisis_completo calls, in the order of its statements
PasosAnalisis(sh) ==
    IF EsDosPorDos(sh)
    THEN <<"mostrar_tabla", "prueba_fisher_exacta", "intervalo_agresti_caffo_diferencia",
           "prueba_chi_cuadrado", "comparar_metodos">>
    ELSE <<"mostrar_tabla", "prueba_chi_cuadrado">>

\* what analisis_completo() gives when its mostrar_tabla gave rm: the calls
\* made, up to the first that raises; the exception is not caught
RegistroPaso(nombre, rm, t, sh, a) ==
    CASE nombre = "mostrar_tabla" -> rm
      [] nombre = "prueba_fisher_exacta" -> RegistroFisher(t, sh, a, "two-sided")
      [] nombre = "intervalo_agresti_caffo_diferencia" -> RegistroCaffo(t, sh, a)
      [] nombre = "prueba_chi_cuadrado" -> RegistroChi(t, sh, a)
      [] nombre = "comparar_metodos" -> RegistroComparar(t, sh, a)

\* the position, from i on, of the first call that raises; 0 if none does
RECURSIVE PrimerFallo(_, _, _, _, _, _)
PrimerFallo(pasos, i, rm, t, sh, a) ==
    IF i > Len(pasos) THEN 0
    ELSE IF RegistroPaso(pasos[i], rm, t, sh, a).tipo = "raise" THEN i
    ELSE PrimerFallo(pasos, i + 1, rm, t, sh, a)

AnalisisHasta(pasos, primero, rm, t, sh, a) ==
    IF primero = 0
    THEN [tipo |-> "None", pasos |-> pasos]
    ELSE [tipo |-> "raise", error |-> RegistroPaso(pasos[primero], rm, t, sh, a).error,
          pasos |-> SubSeq(pasos, 1, primero)]

RegistroAnalisis(rm, t, sh, a) ==
    AnalisisHasta(PasosAnalisis(sh), PrimerFallo(PasosAnalisis(sh), 1, rm, t, sh, a),
                  rm, t, sh, a)

analisis_completo ==
    /\ construido = "si"
    /\ llamada' = [metodo |-> "analisis_completo", alternativa |-> ""]
    /\ \E rm \in ResultadosMostrar(tabla, shape, nombres_grupos, nombres_categorias) :
          resultado' = RegistroAnalisis(rm, tabla, shape, alpha)
    /\ UNCHANGED <<objeto, estado_hilos, estado_app>>

----------------------------------------------------------------------------
(* Two threads calling the methods of one object *)

\* the record of the call ll on an object whose array is t, of shape sh, and
\* whose alpha is a
RegistroDe(ll, t, sh, a) ==
    CASE ll.metodo = "prueba_fisher_exacta" -> RegistroFisher(t, sh, a, ll.alternativa)
      [] ll.metodo = "prueba_chi_cuadrado" -> RegistroChi(t, sh, a)
      [] ll.metodo = "intervalo_agresti_coull" ->
            RegistroCoull(t, sh, a, ll.grupo, ll.categoria_exito)
      [] ll.metodo = "intervalo_agresti_caffo_diferencia" -> RegistroCaffo(t, sh, a)

\* a thread enters a method
Invocar(h) ==
    /\ construido = "si"
    /\ hilos[h].pc = "libre"
    /\ \E ll \in LlamadasHilos :
          hilos' = [hilos EXCEPT ![h].pc = "llamado", ![h].llamada = ll]
    /\ UNCHANGED <<objeto, llamada, resultado, estado_app>>

\* a mutation of Leer: the method also writes a cell of the array it reads
LeerEscribiendo(h) ==
    /\ hilos[h].pc = "llamado"
    /\ hilos' = [hilos EXCEPT ![h].pc = "leido", ![h].tabla_leida = tabla,
                              ![h].shape_leida = shape]
    /\ tabla' = [tabla EXCEPT ![1][1] = @ + 1]
    /\ UNCHANGED <<construido, error_init, entrada, shape, alpha, nombres_grupos,
                   nombres_categorias, llamada, resultado, estado_app>>

\* the first statements of the method: self.tabla is read (its shape, its
\* cells) and the statistics are computed from it, in locals
Leer(h) ==
    /\ hilos[h].pc = "llamado"
    /\ hilos' = [hilos EXCEPT ![h].pc = "leido", ![h].tabla_leida = tabla,
                              ![h].shape_leida = shape]
    /\ UNCHANGED <<objeto, llamada, resultado, estado_app>>

\* one print call of the report: a line goes to the stream sys.stdout is
\* bound to at that moment
Imprimir(h) ==
    /\ hilos[h].pc = "leido"
    /\ hilos[h].impresas < LineasInforme
    /\ hilos' = [hilos EXCEPT ![h].impresas = @ + 1]
    /\ flujos' = [flujos EXCEPT ![sys_stdout] = Append(@, <<h, hilos[h].impresas + 1>>)]
    /\ UNCHANGED <<objeto, llamada, resultado, sys_stdout, bloques>>

\* the return statement: self.alpha is read for the decision and the record
\* is built from the locals
Retornar(h) ==
    /\ hilos[h].pc = "leido"
    /\ hilos[h].impresas = LineasInforme
    /\ hilos' = [hilos EXCEPT ![h].pc = "hecho",
                              ![h].resultado = RegistroDe(hilos[h].llamada,
                                  hilos[h].tabla_leida, hilos[h].shape_leida, alpha)]
    /\ UNCHANGED <<objeto, llamada, resultado, estado_app>>

----------------------------------------------------------------------------
(* app.py: the analysis block, run by the script thread of each session *)

\* old_stdout = sys.stdout
Guardar(s) ==
    /\ bloques[s].pc = "inicio"
    /\ bloques' = [bloques EXCEPT ![s].pc = "guardado", ![s].old_stdout = sys_stdout]
    /\ UNCHANGED <<objeto, llamada, resultado, estado_hilos, sys_stdout, flujos>>

\* sys.stdout = resultado_buffer = io.StringIO()
Redirigir(s) ==
    /\ bloques[s].pc = "guardado"
    /\ sys_stdout' = Buffer(s)
    /\ bloques' = [bloques EXCEPT ![s].pc = "try"]
    /\ UNCHANGED <<objeto, llamada, resultado, estado_hilos, flujos>>

\* in the try body, a print call of a method of the class: the line goes to
\* the stream sys.stdout is bound to at that moment
ImprimirAnalisis(s) ==
    /\ bloques[s].pc = "try"
    /\ bloques[s].impresos < LineasInforme
    /\ bloques' = [bloques EXCEPT ![s].impresos = @ + 1]
    /\ flujos' = [flujos EXCEPT ![sys_stdout] = Append(@, <<s, bloques[s].impresos + 1>>)]
    /\ UNCHANGED <<objeto, llamada, resultado, estado_hilos, sys_stdout>>

\* the try body ends: by reaching its end, or at any point by an exception,
\* which the except clause reports with st.error
TerminarTry(s) ==
    /\ bloques[s].pc = "try"
    /\ \/ /\ bloques[s].impresos = LineasInforme
          /\ bloques' = [bloques EXCEPT ![s].pc = "finally", ![s].fin = "normal"]
       \/ bloques' = [bloques EXCEPT ![s].pc = "finally", ![s].fin = "excepcion"]
    /\ UNCHANGED <<objeto, llamada, resultado, estado_hilos, sys_stdout, flujos>>

\* finally: sys.stdout = old_stdout
Restaurar(s) ==
    /\ bloques[s].pc = "finally"
    /\ sys_stdout' = bloques[s].old_stdout
    /\ bloques' = [bloques EXCEPT ![s].pc = "fin"]
    /\ UNCHANGED <<objeto, llamada, resultado, estado_hilos, flujos>>

----------------------------------------------------------------------------
(* app.py: what the results tab shows for a table *)

\* 2x2 tables with a total of 20 or more and an expected frequency below 5
GrandesConEsperadaBaja ==
    {<<<<12, 2>>, <<3, 3>>>>, <<<<17, 1>>, <<1, 1>>>>, <<<<9, 9>>, <<1, 1>>>>}

\* the tables of the two forms of the data tab: counts are number inputs with
\* min_value=0
EntradasApp ==
    [1 .. 2 -> [1 .. 2 -> 0 .. MaxCuenta]] \cup Ejemplos \cup GrandesConEsperadaBaja
        \cup [1 .. 2 -> FilasDeTres]

\* if total < 20: st.success(...) else: st.info(...)
RecomendacionApp(total) ==
    IF total < 20
    THEN "Recomendacion: Usar prueba exacta de Fisher (muestra pequena)"
    ELSE "Recomendacion: Ambos metodos son validos (muestra adecuada)"

\* the exception that leaves the try body, "" if none: the first of the calls
\* of the sub-tabs, in order, that raises
RECURSIVE PrimerError(_, _)
PrimerError(registros, i) ==
    IF i > Len(registros) THEN ""
    ELSE IF registros[i].tipo = "raise" THEN registros[i].error
    ELSE PrimerError(registros, i + 1)

\* the four sub-tabs of a 2x2 table, given the records of the calls they make
Pestanas(registros, total) ==
    IF PrimerError(registros, 1) # ""
    THEN [tipo |-> "st.error", error |-> PrimerError(registros, 1)]
    ELSE [tipo |-> "pestanas",
          decision_fisher |-> IF registros[1].rechazo_h0 THEN "Rechazar H0"
                                                        ELSE "No rechazar H0",
          decision_chi |-> IF registros[2].rechazo_h0 THEN "Rechazar H0"
                                                     ELSE "No rechazar H0",
          recomendacion |-> RecomendacionApp(total)]

\* a larger table: the chi-square test only
SoloChi(registro) ==
    IF registro.tipo = "raise"
    THEN [tipo |-> "st.error", error |-> registro.error]
    ELSE [tipo |-> "chi", supuestos_ok |-> registro.supuestos_ok]

\* what the try body of the analysis block shows for the array t of shape sh
RegistroApp(t, sh, a) ==
    IF EsDosPorDos(sh)
    THEN Pestanas(<<RegistroFisher(t, sh, a, "two-sided"),
                    RegistroChi(t, sh, a),
                    RegistroCaffo(t, sh, a),
                    RegistroCoull(t, sh, a, 0, 0),
                    RegistroCoull(t, sh, a, 1, 0)>>,
                  GrandTotal(t, sh))
    ELSE SoloChi(RegistroChi(t, sh, a))

\* the button "calcular": the try body on the object built from the form
analisis_app ==
    /\ construido = "si"
    /\ llamada' = [metodo |-> "app", alternativa |-> ""]
    /\ resultado' = RegistroApp(tabla, shape, alpha)
    /\ UNCHANGED <<objeto, estado_hilos, estado_app>>

----------------------------------------------------------------------------
(* Properties *)

EsResultadoChi ==
    llamada.metodo = "prueba_chi_cuadrado" /\ resultado.tipo = "dict"

EsResultadoFisher ==
    /\ llamada.metodo = "prueba_fisher_exacta"
    /\ resultado.tipo = "dict"
    /\ resultado.aplicable

\* what the specification calls a valid matrix: at least 2x2, rectangular,
\* no negative entry
EntradaValida(m) ==
    /\ Len(m) >= 2
    /\ IsRectangular(m)
    /\ Len(m[1]) >= 2
    /\ \A i \in 1 .. Len(m) : \A j \in 1 .. Len(m[i]) : m[i][j] >= 0

TablaValida == construido = "si" /\ EntradaValida(entrada)

MargenesPositivos ==
    /\ Len(shape) = 2
    /\ \A i \in Filas(shape) : RowTotal(tabla, shape, i) > 0
    /\ \A j \in Columnas(shape) : ColTotal(tabla, shape, j) > 0

AlgunMargenCero ==
    \/ \E i \in Filas(shape) : RowTotal(tabla, shape, i) = 0
    \/ \E j \in Columnas(shape) : ColTotal(tabla, shape, j) = 0

\* C1 (as claimed): an input matrix with fewer than 2 rows, fewer than 2
\* columns, rows of unequal length or a negative entry never yields a
\* constructed object: the constructor fails on it.
C1_EntradaInvalidaRechazada ==
    (construido # "no" /\ ~EntradaValida(entrada)) => construido = "error"

\* C2: on an object whose shape is not (2, 2), prueba_fisher_exacta (whatever
\* the alternative) returns the record tagged not applicable, with a reason,
\* and intervalo_agresti_caffo_diferencia returns None after giving the
\* reason; neither raises.
C2_NoAplicableFuera2x2 ==
    (construido = "si" /\ shape # <<2, 2>>) =>
        /\ llamada.metodo = "prueba_fisher_exacta" =>
              /\ resultado.tipo = "dict"
              /\ resultado.aplicable = FALSE
              /\ resultado.mensaje # ""
        /\ llamada.metodo = "intervalo_agresti_caffo_diferencia" =>
              /\ resultado.tipo = "None"
              /\ resultado.mensaje # ""

\* C2 witness: Fisher was called with an alternative scipy would reject, on a
\* 3x2 table, and answered "not applicable"
C2_Witness ==
    /\ shape = <<3, 2>>
    /\ llamada = [metodo |-> "prueba_fisher_exacta", alternativa |-> "otra"]
    /\ resultado.tipo = "dict"
    /\ ~resultado.aplicable

\* sum of (N*O - R*C)^2 / (N*R*C) over the cells: Pearson's statistic with
\* expected = R*C/N and no correction
PearsonPlano ==
    LET N == GrandTotal(tabla, shape)
    IN  RSumSeq([i \in Filas(shape) |-> RSumSeq([j \in Columnas(shape) |->
            LET R == RowTotal(tabla, shape, i)
                C == ColTotal(tabla, shape, j)
                u == N * tabla[i][j] - R * C
            IN  Frac(u * u, N * R * C)])])

\* Yates' statistic of a 2x2 table: N * max(0, |ad - bc| - N/2)^2 over the
\* product of the four margins
PearsonYates2x2 ==
    LET N == GrandTotal(tabla, shape)
        D == Abs(tabla[1][1] * tabla[2][2] - tabla[1][2] * tabla[2][1])
        u == IF 2 * D > N THEN 2 * D - N ELSE 0
    IN  Frac(N * u * u,
             4 * RowTotal(tabla, shape, 1) * RowTotal(tabla, shape, 2)
               * ColTotal(tabla, shape, 1) * ColTotal(tabla, shape, 2))

\* C3 (as claimed): for every table with all margins positive, 2x2 tables
\* included, the chi2 returned is the uncorrected Pearson sum.
C3_SinCorreccion ==
    (EsResultadoChi /\ MargenesPositivos) => resultado.chi2 = PearsonPlano

\* C3 (amended): with all margins positive, the chi2 returned is the
\* uncorrected Pearson sum unless the table is 2x2; for a 2x2 table it is the
\* sum after Yates' continuity correction.
C3_PearsonConYates ==
    (EsResultadoChi /\ MargenesPositivos) =>
        /\ \A i \in Filas(shape) : \A j \in Columnas(shape) :
              resultado.expected[i][j] =
                  Frac(RowTotal(tabla, shape, i) * ColTotal(tabla, shape, j),
                       GrandTotal(tabla, shape))
        /\ resultado.chi2 = IF shape = <<2, 2>> THEN PearsonYates2x2 ELSE PearsonPlano

\* C3 witness: a 2x2 result on which the correction changes the statistic,
\* without cancelling it
C3_Witness ==
    /\ EsResultadoChi
    /\ MargenesPositivos
    /\ shape = <<2, 2>>
    /\ resultado.chi2 # PearsonPlano
    /\ resultado.chi2[1] > 0

\* C4 (as claimed): on a valid table with a row or column total of 0,
\* prueba_chi_cuadrado fails; a record it returns never holds a NaN or
\* infinite chi2 or p_value.
C4_TablaDegeneradaFalla ==
    (TablaValida /\ llamada.metodo = "prueba_chi_cuadrado") =>
        /\ AlgunMargenCero => resultado.tipo = "raise"
        /\ resultado.tipo = "dict" =>
              IsFinite(resultado.chi2) /\ IsFinite(resultado.p_value)

Max(a, b) == IF a > b THEN a ELSE b

Min(a, b) == IF a < b THEN a ELSE b

\* the p-value of the claim: the hypergeometric probabilities of the feasible
\* values k of the (0,0) cell, the margins being fixed, added over the k the
\* alternative selects
PValorHipergeometrico(alternativa) ==
    LET a == tabla[1][1]
        n1 == SumSeq(tabla[1])
        n2 == SumSeq(tabla[2])
        n == tabla[1][1] + tabla[2][1]
        Peso(k) == Binom(n1, k) * Binom(n2, n - k)
        Incluye(k) == CASE alternativa = "less" -> k <= a
                        [] alternativa = "greater" -> k >= a
                        [] alternativa = "two-sided" -> Peso(k) <= Peso(a)
        lo == Max(0, n - n2)
        hi == Min(n1, n)
        Suma[k \in lo .. hi + 1] ==
            IF k > hi THEN 0
            ELSE (IF Incluye(k) THEN Peso(k) ELSE 0) + Suma[k + 1]
    IN  Frac(Suma[lo], Binom(n1 + n2, n))

\* C5: on a 2x2 table, the p_value of prueba_fisher_exacta is the
\* hypergeometric sum over the feasible k: k <= observed for "less",
\* k >= observed for "greater", and for "two-sided" every k whose
\* probability is at most that of the observed cell.
C5_PValorFisher ==
    (EsResultadoFisher /\ llamada.alternativa \in {"less", "greater", "two-sided"}) =>
        resultado.p_value = PValorHipergeometrico(llamada.alternativa)

\* C5 witness: a two-sided test in which the observed cell is below the mode
\* and values on both sides of it are added
C5_Witness ==
    /\ EsResultadoFisher
    /\ llamada.alternativa = "two-sided"
    /\ tabla = <<<<1, 3>>, <<4, 2>>>>
    /\ RLt(resultado.p_value, OfInt(1))

\* C6 (as claimed): on a valid table, the p_value of prueba_chi_cuadrado and
\* that of prueba_fisher_exacta (when applicable) lie in [0, 1].
C6_PValorEnUnidad ==
    (TablaValida /\ (EsResultadoChi \/ EsResultadoFisher)) =>
        RLe(OfInt(0), resultado.p_value) /\ RLe(resultado.p_value, OfInt(1))

TodasIguales ==
    /\ Len(shape) = 2
    /\ \A i \in Filas(shape) : \A j \in Columnas(shape) : tabla[i][j] = tabla[1][1]

\* C7 (as claimed): on a valid table whose cells all hold the same value,
\* prueba_chi_cuadrado returns p_value = 1 and the two-sided
\* prueba_fisher_exacta returns p_value = 1.
C7_CeldasIgualesPUno ==
    (TablaValida /\ TodasIguales) =>
        /\ llamada.metodo = "prueba_chi_cuadrado" =>
              resultado.tipo = "dict" /\ REq(resultado.p_value, OfInt(1))
        /\ (llamada.metodo = "prueba_fisher_exacta" /\ llamada.alternativa = "two-sided"
              /\ shape = <<2, 2>>) =>
              resultado.tipo = "dict" /\ REq(resultado.p_value, OfInt(1))

LlamadaFisherValida ==
    /\ TablaValida
    /\ shape = <<2, 2>>
    /\ llamada.metodo = "prueba_fisher_exacta"
    /\ llamada.alternativa \in {"less", "greater", "two-sided"}

\* C8 (as claimed): on every 2x2 table prueba_fisher_exacta returns
\* odds_ratio = counts[0][0]*counts[1][1] / (counts[0][1]*counts[1][0]), and
\* the infinite value when that denominator is 0; it does not raise.
C8_OddsRatioInfinito ==
    LlamadaFisherValida =>
        /\ resultado.tipo = "dict"
        /\ resultado.odds_ratio =
              IF tabla[1][2] * tabla[2][1] # 0
              THEN Frac(tabla[1][1] * tabla[2][2], tabla[1][2] * tabla[2][1])
              ELSE Inf

\* C8 (amended): on every 2x2 table of non-negative counts, with one of the
\* three alternatives, prueba_fisher_exacta does not raise and returns
\* odds_ratio = counts[0][0]*counts[1][1] / (counts[0][1]*counts[1][0]) when
\* that denominator is not 0; when it is 0 it returns the infinite value if
\* every row and column total is positive, and NaN if some total is 0.
C8_OddsRatioCentinela ==
    LlamadaFisherValida =>
        /\ resultado.tipo = "dict"
        /\ resultado.aplicable
        /\ resultado.odds_ratio =
              IF tabla[1][2] * tabla[2][1] # 0
              THEN Frac(tabla[1][1] * tabla[2][2], tabla[1][2] * tabla[2][1])
              ELSE IF MargenesPositivos THEN Inf ELSE NaN

\* C8 witness: a zero denominator with positive margins, answered by the
\* infinite value
C8_Witness ==
    /\ LlamadaFisherValida
    /\ tabla[1][2] * tabla[2][1] = 0
    /\ MargenesPositivos
    /\ resultado.tipo = "dict"
    /\ resultado.odds_ratio = Inf

\* C9: in every record of prueba_chi_cuadrado and every applicable record of
\* prueba_fisher_exacta, rechazo_h0 is true exactly when p_value is strictly
\* below alpha (never when p_value is NaN); p_value = alpha does not reject.
C9_RechazoEstricto ==
    (EsResultadoChi \/ EsResultadoFisher) =>
        resultado.rechazo_h0 =
            (/\ ~IsNaN(resultado.p_value)
             /\ resultado.p_value[1] * alpha[2] < alpha[1] * resultado.p_value[2])

\* C9 witness: a p_value equal to alpha, which does not reject
C9_Witness ==
    /\ EsResultadoFisher
    /\ resultado.p_value = alpha
    /\ ~resultado.rechazo_h0

\* C10: the df returned by prueba_chi_cuadrado on an r x c table is
\* (r - 1) * (c - 1); it is 2 on a 2x3 table.
C10_GradosDeLibertad ==
    EsResultadoChi =>
        /\ resultado.df = (shape[1] - 1) * (shape[2] - 1)
        /\ shape = <<2, 3>> => resultado.df = 2

\* C10 witness: a chi-square record on a 2x3 table
C10_Witness ==
    /\ EsResultadoChi
    /\ shape = <<2, 3>>
    /\ resultado.df = 2

\* the cells whose expected frequency R * C / N is below 5, counted on the
\* integers
CeldasBajoCinco ==
    LET N == GrandTotal(tabla, shape)
    IN  Cardinality({ij \in Filas(shape) \X Columnas(shape) :
            N > 0 /\ RowTotal(tabla, shape, ij[1]) * ColTotal(tabla, shape, ij[2]) < 5 * N})

\* C11: in every record of prueba_chi_cuadrado, supuestos_ok is true exactly
\* when the cells whose expected frequency is strictly below 5 are at most
\* one fifth of the cells (exactly one fifth is accepted), and a record whose
\* flag is false still carries the statistic, the p-value and the degrees of
\* freedom.
C11_SupuestosOk ==
    EsResultadoChi =>
        /\ resultado.celdas_bajas = CeldasBajoCinco
        /\ resultado.supuestos_ok = (5 * CeldasBajoCinco <= shape[1] * shape[2])
        /\ ~resultado.supuestos_ok =>
              /\ IsFinite(resultado.chi2)
              /\ RLe(OfInt(0), resultado.p_value) /\ RLe(resultado.p_value, OfInt(1))
              /\ resultado.df = (shape[1] - 1) * (shape[2] - 1)

\* C11 witness: exactly 20 % of the cells are low (two of ten, the other
\* eight at 5 or more, some of them at exactly 5) and the flag is true
C11_Witness ==
    /\ EsResultadoChi
    /\ shape = <<2, 5>>
    /\ CeldasBajoCinco = 2
    /\ \E i \in Filas(shape), j \in Columnas(shape) : resultado.expected[i][j] = OfInt(5)
    /\ resultado.supuestos_ok

EsResultadoCoull ==
    llamada.metodo = "intervalo_agresti_coull" /\ resultado.tipo = "dict"

\* C12: on a table of non-negative counts (so that 0 <= x <= n), the bounds
\* returned by intervalo_agresti_coull lie in [0, 1] and ic_lower <= ic_upper.
C12_LimitesCoull ==
    (TablaValida /\ EsResultadoCoull) =>
        /\ 0 <= resultado.x /\ resultado.x <= resultado.n
        /\ IsFinite(resultado.ic_lower) /\ IsFinite(resultado.ic_upper)
        /\ resultado.ic_lower[1] >= 0
        /\ resultado.ic_upper[1] <= resultado.ic_upper[2]
        /\ RSub(resultado.ic_upper, resultado.ic_lower)[1] >= 0

\* C12 witness: no success in a group that is not empty; the lower bound is
\* cut at 0 and the upper bound is strictly inside (0, 1)
C12_Witness ==
    /\ TablaValida
    /\ EsResultadoCoull
    /\ resultado.x = 0
    /\ resultado.n > 0
    /\ resultado.ic_lower = OfInt(0)
    /\ RLt(OfInt(0), resultado.ic_upper)
    /\ RLt(resultado.ic_upper, OfInt(1))

LlamadaCoull == construido = "si" /\ llamada.metodo = "intervalo_agresti_coull"

\* C13 (as claimed): intervalo_agresti_coull fails with IndexError whenever
\* grupo is outside 0..r-1 or categoria_exito is outside 0..c-1, the indices
\* below 0 included.
C13_IndiceFueraFalla ==
    (LlamadaCoull /\ Len(shape) = 2
        /\ (llamada.grupo \notin 0 .. shape[1] - 1
              \/ llamada.categoria_exito \notin 0 .. shape[2] - 1)) =>
        resultado = [tipo |-> "raise", error |-> "IndexError"]

\* C13 (amended): intervalo_agresti_coull fails with IndexError, and returns
\* no interval, whenever grupo is outside -r..r-1 or categoria_exito is
\* outside -c..c-1; an index from -r to -1 (from -c to -1) is in bounds: it
\* counts from the end, and the interval returned is that of row r + grupo
\* and column c + categoria_exito.
C13_IndiceDesdeElFinal ==
    (LlamadaCoull /\ Len(shape) = 2) =>
        LET r == shape[1]
            c == shape[2]
            g == llamada.grupo
            k == llamada.categoria_exito
        IN  IF g \notin -r .. r - 1 \/ k \notin -c .. c - 1
            THEN resultado = [tipo |-> "raise", error |-> "IndexError"]
            ELSE /\ resultado.tipo = "dict"
                 /\ resultado.x = tabla[IF g < 0 THEN r + g + 1 ELSE g + 1]
                                       [IF k < 0 THEN c + k + 1 ELSE k + 1]
                 /\ resultado.n = SumSeq(tabla[IF g < 0 THEN r + g + 1 ELSE g + 1])

\* C13 witness: grupo = -1 and categoria_exito = 1 on a 3x2 table whose last
\* row differs from the first: the interval of the last row is returned
C13_Witness ==
    /\ LlamadaCoull
    /\ shape = <<3, 2>>
    /\ llamada.grupo = -1
    /\ llamada.categoria_exito = 1
    /\ tabla[3] # tabla[1]
    /\ resultado.tipo = "dict"
    /\ resultado.x = tabla[3][2]

EsResultadoCaffo ==
    llamada.metodo = "intervalo_agresti_caffo_diferencia" /\ resultado.tipo = "dict"

\* diff_tilde = (x1 + 1) / (n1 + 2) - (x2 + 1) / (n2 + 2)
DiffTilde ==
    RSub(Frac(tabla[1][1] + 1, tabla[1][1] + tabla[1][2] + 2),
         Frac(tabla[2][1] + 1, tabla[2][1] + tabla[2][2] + 2))

\* C14 (as claimed): on every 2x2 table of counts the interval returned by
\* intervalo_agresti_caffo_diferencia satisfies
\* -1 <= ic_lower <= diff_tilde <= ic_upper <= 1.
C14_LimitesEnUnidad ==
    (TablaValida /\ EsResultadoCaffo) =>
        /\ RLe(OfInt(-1), resultado.ic_lower)
        /\ RLe(resultado.ic_lower, DiffTilde)
        /\ RLe(DiffTilde, resultado.ic_upper)
        /\ RLe(resultado.ic_upper, OfInt(1))

\* C14 (amended): on every 2x2 table of counts the interval returned
\* satisfies ic_lower <= diff_tilde <= ic_upper, and its bounds are
\* diff_tilde - z*se and diff_tilde + z*se as computed, at the same distance
\* from diff_tilde: they are not cut to [-1, 1] and one of them can lie
\* outside it.
C14_LimitesSinRecorte ==
    (TablaValida /\ EsResultadoCaffo) =>
        /\ resultado.diff_ajustada = DiffTilde
        /\ RLe(resultado.ic_lower, DiffTilde)
        /\ RLe(DiffTilde, resultado.ic_upper)
        /\ RSub(resultado.ic_upper, DiffTilde) = RSub(DiffTilde, resultado.ic_lower)

\* C14 witness: the first group all failures and the second all successes;
\* the lower bound is below -1
C14_Witness ==
    /\ TablaValida
    /\ EsResultadoCaffo
    /\ tabla[1][1] = 0 /\ tabla[1][2] > 0
    /\ tabla[2][1] > 0 /\ tabla[2][2] = 0
    /\ RLt(resultado.ic_lower, OfInt(-1))
    /\ RLt(resultado.ic_upper, OfInt(1))

\* C15: the record of intervalo_agresti_caffo_diferencia tells whether the
\* interval excludes zero, as the negation of its flag incluye_cero: zero is
\* excluded (the exclusion is what the application shows, and what the
\* method prints) exactly when it is not the case that
\* ic_lower <= 0 <= ic_upper; a bound equal to 0 does not exclude zero.
C15_ExcluyeCero ==
    EsResultadoCaffo =>
        LET dentro == /\ IsFinite(resultado.ic_lower) /\ resultado.ic_lower[1] <= 0
                      /\ IsFinite(resultado.ic_upper) /\ resultado.ic_upper[1] >= 0
        IN  /\ resultado.incluye_cero = dentro
            /\ MuestraExclusion(resultado) = ~dentro
            /\ TablaValida => (resultado.impreso = "El intervalo INCLUYE 0") = dentro

\* C15 witness: an interval whose two bounds are below 0, reported as
\* excluding zero
C15_Witness ==
    /\ TablaValida
    /\ EsResultadoCaffo
    /\ resultado.ic_lower[1] < 0
    /\ resultado.ic_upper[1] < 0
    /\ ~resultado.incluye_cero
    /\ MuestraExclusion(resultado)

\* the expected frequency R * C / N of some cell is below 5, on the integers
AlgunaEsperadaBajoCinco ==
    LET N == GrandTotal(tabla, shape)
    IN  \E i \in Filas(shape), j \in Columnas(shape) :
            RowTotal(tabla, shape, i) * ColTotal(tabla, shape, j) < 5 * N

\* what comparar_metodos is claimed to recommend on the table of the object
RecomendacionEsperada ==
    /\ resultado.tipo = "None"
    /\ resultado.recomendacion =
          IF GrandTotal(tabla, shape) < 20 \/ AlgunaEsperadaBajoCinco
          THEN "USAR: Prueba exacta de Fisher"
          ELSE "USAR: Chi-cuadrado o Fisher (ambos son validos)"
    /\ resultado.intervalo = "USAR: Metodo Agresti-Caffo"

\* C16 (as claimed): on every 2x2 table of counts, comparar_metodos
\* recommends the Fisher exact test exactly when the grand total is below 20
\* or the smallest expected frequency is below 5, and declares both tests
\* valid otherwise; in both cases it recommends the Agresti-Caffo interval.
C16_Recomendacion ==
    (TablaValida /\ shape = <<2, 2>> /\ llamada.metodo = "comparar_metodos") =>
        RecomendacionEsperada

\* C17: once the object is constructed no step changes its counts, its
\* labels or its alpha, whatever the method called and whether it returns
\* or raises.
C17_ObjetoInmutable ==
    [][construido = "si" =>
          /\ construido' = "si"
          /\ UNCHANGED <<tabla, shape, alpha, nombres_grupos, nombres_categorias>>]_vars

\* C17 witness: analisis_completo has raised half way, after mostrar_tabla
\* and two more methods, and the array is the one passed to the constructor
C17_Witness ==
    /\ construido = "si"
    /\ llamada.metodo = "analisis_completo"
    /\ resultado.tipo = "raise"
    /\ Len(resultado.pasos) > 3
    /\ tabla = entrada
    /\ shape = NpShape(entrada)

\* the two-sided Fisher test of the vaccine trial of examples.py
VacunaFisher ==
    /\ construido = "si"
    /\ tabla = <<<<3, 12>>, <<11, 4>>>>
    /\ alpha = <<1, 20>>
    /\ llamada = [metodo |-> "prueba_fisher_exacta", alternativa |-> "two-sided"]

\* C19 (as claimed): on [[3,12],[11,4]] with alpha = 0.05 the two-sided
\* Fisher test rejects, with an odds ratio of 12/132 and a p-value of about
\* 0.0064 (here: within 0.0005 of it).
C19_VacunaPValor64 ==
    VacunaFisher =>
        /\ resultado.tipo = "dict"
        /\ resultado.rechazo_h0
        /\ resultado.odds_ratio = Frac(12, 132)
        /\ RLe(<<59, 10000>>, resultado.p_value)
        /\ RLe(resultado.p_value, <<69, 10000>>)

\* C19 (amended): on [[3,12],[11,4]] with alpha = 0.05 the two-sided Fisher
\* test rejects, with an odds ratio of 12/132 (about 0.091) and a p-value
\* of about 0.0092: the two tails k <= 3 and k >= 11 of the hypergeometric
\* distribution of the first cell, 1340880 / 145422675.
C19_VacunaPValor92 ==
    VacunaFisher =>
        /\ resultado.tipo = "dict"
        /\ resultado.rechazo_h0
        /\ resultado.odds_ratio = Frac(12, 132)
        /\ RLt(<<909, 10000>>, resultado.odds_ratio)
        /\ RLt(resultado.odds_ratio, <<910, 10000>>)
        /\ resultado.p_value =
              Frac(SumSeq([i \in 1 .. 8 |->
                      LET k == <<0, 1, 2, 3, 11, 12, 13, 14>>[i]
                      IN  Binom(15, k) * Binom(15, 14 - k)]),
                   Binom(30, 14))
        /\ resultado.p_value = Frac(1340880, 145422675)
        /\ RLt(<<92, 10000>>, resultado.p_value)
        /\ RLt(resultado.p_value, <<93, 10000>>)

\* C19 witness: the test of the example has been made and rejects
C19_Witness ==
    /\ VacunaFisher
    /\ resultado.tipo = "dict"
    /\ resultado.rechazo_h0
    /\ nombres_grupos = NombresDados("Fila", 2)

\* the record the call of thread h gives when it is the only call made on
\* the object as constructed
RegistroSolo(h) == RegistroDe(hilos[h].llamada, entrada, NpShape(entrada), alpha)

RegistrosComoSolos ==
    \A h \in Hilos : hilos[h].pc = "hecho" => hilos[h].resultado = RegistroSolo(h)

\* C18 (as claimed): whatever the order or the interleaving of the calls of
\* the two threads, each call returns the record it gives alone, and no step
\* of a call writes state that the other call shares.
C18_SinEstadoCompartido ==
    [][/\ RegistrosComoSolos'
       /\ (construido = "si" => UNCHANGED <<objeto, estado_app>>)]_vars

\* C18 (amended): whatever the order or the interleaving of the calls of the
\* two threads, each call returns the record it gives alone, and the object
\* they share (counts, shape, alpha, labels) is never written.  (The
\* report of each call is written to the shared sys.stdout.)
C18_RegistrosIndependientes ==
    /\ RegistrosComoSolos
    /\ construido = "si" => (tabla = entrada /\ shape = NpShape(entrada))

\* C18 witness: the two calls overlapped (the lines of their reports
\* alternate in sys.stdout), both returned, with different records
C18_Witness ==
    /\ \A h \in Hilos : hilos[h].pc = "hecho"
    /\ hilos[1].llamada.metodo = "prueba_chi_cuadrado"
    /\ hilos[2].llamada.metodo = "prueba_fisher_exacta"
    /\ hilos[2].resultado.tipo = "dict" /\ hilos[2].resultado.aplicable
    /\ Len(flujos[Original]) = 2 * LineasInforme
    /\ flujos[Original][1][1] # flujos[Original][2][1]
    /\ RegistrosComoSolos

\* C20 (as claimed): once the analysis blocks of the two sessions have both
\* finished, normally or by an exception, sys.stdout is bound again to the
\* stream it was bound to before either began.
C20_StdoutRestaurado ==
    (\A s \in Sesiones : bloques[s].pc = "fin") => sys_stdout = Original

\* the recommendation comparar_metodos makes for the table of the object
RecomendacionClase == RegistroComparar(tabla, shape, alpha).recomendacion

\* C21 (as claimed): for every 2x2 table on which the comparison tab of the
\* web app shows a recommendation, the app recommends the Fisher exact test
\* exactly when comparar_metodos recommends it for that table.
C21_MismaRecomendacion ==
    (construido = "si" /\ llamada.metodo = "app" /\ resultado.tipo = "pestanas")
        => ((resultado.recomendacion = RecomendacionApp(0))
                <=> (RecomendacionClase = Recomendacion(0, OfInt(0))))

\* the last call analisis_completo made ended by an exception
UltimoPasoFallo(nombre) ==
    /\ resultado.tipo = "raise"
    /\ resultado.pasos[Len(resultado.pasos)] = nombre

\* C22 (as claimed): analisis_completo calls mostrar_tabla, then on a 2x2
\* table prueba_fisher_exacta and intervalo_agresti_caffo_diferencia, then
\* prueba_chi_cuadrado, then on a 2x2 table comparar_metodos; on any other
\* table it calls exactly mostrar_tabla and prueba_chi_cuadrado; the only
\* call left out is comparar_metodos, when prueba_chi_cuadrado raised.
C22_OrdenFijo ==
    (construido = "si" /\ llamada.metodo = "analisis_completo")
        => IF shape = <<2, 2>>
           THEN \/ resultado.pasos =
                      <<"mostrar_tabla", "prueba_fisher_exacta",
                        "intervalo_agresti_caffo_diferencia", "prueba_chi_cuadrado",
                        "comparar_metodos">>
                \/ /\ UltimoPasoFallo("prueba_chi_cuadrado")
                   /\ resultado.pasos =
                         <<"mostrar_tabla", "prueba_fisher_exacta",
                           "intervalo_agresti_caffo_diferencia", "prueba_chi_cuadrado">>
           ELSE resultado.pasos = <<"mostrar_tabla", "prueba_chi_cuadrado">>

Next ==
    \/ Construir
    \/ prueba_fisher_exacta
    \/ prueba_chi_cuadrado
    \/ intervalo_agresti_caffo_diferencia

Spec == Init /\ [][Next]_vars

----------------------------------------------------------------------------
(* The chi-square test on the 2x5 tables *)

ConstruirSupuestos == ConstruirCon(EntradasSupuestos)

NextSupuestos ==
    \/ ConstruirSupuestos
    \/ prueba_chi_cuadrado

SpecSupuestos == Init /\ [][NextSupuestos]_vars

----------------------------------------------------------------------------
(* Every method of the class *)

ConstruirMetodos == ConstruirCon(EntradasMetodos)

NextMetodos ==
    \/ ConstruirMetodos
    \/ prueba_fisher_exacta
    \/ prueba_chi_cuadrado
    \/ intervalo_agresti_coull
    \/ intervalo_agresti_caffo_diferencia
    \/ mostrar_tabla
    \/ comparar_metodos
    \/ analisis_completo

SpecMetodos == Init /\ [][NextMetodos]_vars

----------------------------------------------------------------------------
(* Two threads on one object *)

ConstruirHilos == ConstruirCon(EntradasHilos)

NextHilos ==
    \/ ConstruirHilos
    \/ \E h \in Hilos : Invocar(h)
    \/ \E h \in Hilos : Leer(h)
    \/ \E h \in Hilos : Imprimir(h)
    \/ \E h \in Hilos : Retornar(h)

SpecHilos == Init /\ [][NextHilos]_vars

----------------------------------------------------------------------------
(* The results tab of the web application, beside comparar_metodos *)

ConstruirApp == ConstruirCon(EntradasApp)

NextApp ==
    \/ ConstruirApp
    \/ analisis_app
    \/ comparar_metodos

SpecApp == Init /\ [][NextApp]_vars

----------------------------------------------------------------------------
(* The analysis blocks of two sessions of the web application *)

NextCaptura ==
    \/ \E s \in Sesiones : Guardar(s)
    \/ \E s \in Sesiones : Redirigir(s)
    \/ \E s \in Sesiones : ImprimirAnalisis(s)
    \/ \E s \in Sesiones : TerminarTry(s)
    \/ \E s \in Sesiones : Restaurar(s)

SpecCaptura == Init /\ [][NextCaptura]_vars

====
